---- MODULE Spec2Model ----
(***************************************************************************)
(* Hunter Douglas PowerView integration                                    *)
(* (homeassistant/components/hunterdouglas_powerview/__init__.py).         *)
(*                                                                         *)
(* Three specifications over one set of variables:                         *)
(*   Spec / FairSpec  the config-entry lifecycle: async_setup_entry, step  *)
(*                    by step, and async_unload_entry, driven by the host; *)
(*   MigSpec          async_migrate_entry, driven by the host;             *)
(*   IdSpec           _migrate_unique_ids applied to drawn registries.     *)
(***************************************************************************)
EXTENDS Integers, Sequences, FiniteSets, TLC

VARIABLES
    \* ---- config entry and host-side registrations
    entry_state,      \* the host's state of the config entry
    entry_data,       \* entry.data: the persisted mapping
    runtime_data,     \* entry.runtime_data
    forwarded,        \* platforms the host has set up for the entry
    \* ---- one run of async_setup_entry
    pc,               \* position in async_setup_entry
    outcome,          \* how the run ended: "none", "true", "false", "not_ready"
    config,           \* local `config` (entry.data as read at line 41)
    hub,              \* local `hub`
    device_info,      \* local `device_info`
    room_data,        \* local `room_data`
    scene_data,       \* local `scene_data`
    shade_data,       \* local `shade_data`
    coordinator,      \* local `coordinator`
    log,              \* history: the events of the current run, in order
    calls,            \* history: how often each hub call was issued in the run
    raised,           \* history: a hub call of the run raised one of HUB_EXCEPTIONS
    runs,             \* number of setup runs started
    \* ---- async_unload_entry
    unload_requested, \* platforms passed to async_unload_platforms
    host_result,      \* what async_unload_platforms returned
    unload_result,    \* what async_unload_entry returned
    \* ---- async_migrate_entry / _migrate_unique_ids
    version,          \* entry.version
    minor_version,    \* entry.minor_version
    unique_id,        \* entry.unique_id (a string, as a sequence of characters)
    registry,         \* the entity registry: entity -> config entry, unique id
    mig_pc,           \* position in async_migrate_entry
    mig_result,       \* its return value
    mig_calls,        \* number of async_migrate_entry calls started
    reg0,             \* history: the registry when the call began
    ver0,             \* history: <<version, minor_version>> when the call began
    id_calls,         \* number of direct _migrate_unique_ids calls
    after_first       \* history: the registry after the first direct call

setup_vars == <<pc, outcome, config, hub, device_info, room_data, scene_data,
                shade_data, coordinator, log, calls, raised, runs>>
entry_vars == <<entry_state, entry_data, runtime_data, forwarded>>
unload_vars == <<unload_requested, host_result, unload_result>>
mig_vars == <<version, minor_version, unique_id, registry, mig_pc, mig_result,
              mig_calls, reg0, ver0, id_calls, after_first>>
vars == <<entry_vars, setup_vars, unload_vars, mig_vars>>

(***************************************************************************)
(* Bounds of the model.                                                    *)
(***************************************************************************)
MaxRuns == 2
NumEntities == 2
MaxIdIndex == 2
MaxMigCalls == 2
MaxIdCalls == 2

(***************************************************************************)
(* Constants of the program.                                               *)
(***************************************************************************)
PLATFORMS == <<"button", "cover", "number", "scene", "select", "sensor">>

CONF_HOST == "host"
CONF_API_VERSION == "api_version"

Range(s) == {s[i] : i \in 1..Len(s)}

(***************************************************************************)
(* Values.                                                                 *)
(***************************************************************************)
\* Python's None, and a local that is not bound yet.
NoValue == [none |-> TRUE]

Roles == {"Primary", "Secondary"}
ApiVersions == {"2", "3"}
HubCalls == {"query_firmware", "get_rooms", "get_scenes", "get_shades"}

\* A hub as query_firmware leaves it: role and api_version are the hub's answer.
Hub(role, api_version) ==
    [role |-> role, api_version |-> api_version, name |-> "hub",
     mac_address |-> "mac", serial_number |-> "serial", firmware |-> "fw",
     model |-> "model", ip |-> "ip", hub_address |-> "ip"]

\* What get_rooms / get_scenes / get_shades return: a PowerviewData.
PowerviewData(kind) == [raw |-> <<kind, "raw">>, processed |-> <<kind, "processed">>]

\* Python truthiness of `device_info`: only None is falsy, a record never is.
Falsy(v) == v = NoValue

async_get_device_info(h) ==
    [name |-> h.name, mac_address |-> h.mac_address,
     serial_number |-> h.serial_number, firmware |-> h.firmware,
     model |-> h.model, hub_address |-> h.ip]

RoleIsPrimary_Any(h) == TRUE

\* line 63: `if hub.role != "Primary"` is the negation of this.
RoleIsPrimary(h) == h.role = "Primary"

\* {**data} followed by new_data[key] = value.
SetKey(data, key, value) ==
    [k \in DOMAIN data \cup {key} |-> IF k = key THEN value ELSE data[k]]

PersistedData_Always(cfg, data, h) == SetKey(data, CONF_API_VERSION, h.api_version)

\* lines 92-95: the entry data after the API-version check.
PersistedData(cfg, data, h) ==
    IF CONF_API_VERSION \notin DOMAIN cfg
    THEN SetKey(data, CONF_API_VERSION, h.api_version)
    ELSE data

\* lines 97-100: the coordinator, seeded with the raw shade data.
PowerviewShadeUpdateCoordinator(h, shades) == [hub |-> h, data |-> shades.raw]

PowerviewEntryData_NoCoordinator(obj, rooms, scenes, shades, coord, info) ==
    [obj |-> obj, api |-> "pv_request", room_data |-> rooms.processed,
     scene_data |-> scenes.processed, shade_data |-> shades.processed,
     coordinator |-> NoValue, device_info |-> info]

\* lines 102-109: the Entry Data aggregate; obj is the identity of the object.
PowerviewEntryData(obj, rooms, scenes, shades, coord, info) ==
    [obj |-> obj, api |-> "pv_request", room_data |-> rooms.processed,
     scene_data |-> scenes.processed, shade_data |-> shades.processed,
     coordinator |-> coord, device_info |-> info]

(***************************************************************************)
(* The host (homeassistant.config_entries), as far as the entry's          *)
(* lifecycle needs it.                                                     *)
(***************************************************************************)
\* The host sets an entry up when it is not loaded, or retries / reloads it.
HostMaySetup == entry_state \in {"not_loaded", "setup_retry", "setup_error"}

\* async_forward_entry_setups(entry, platforms): the platforms get registered.
HostForward(registered, platforms) == registered \cup Range(platforms)

\* async_unload_platforms(entry, platforms): on success they are gone.
HostUnloadPlatforms(registered, platforms, ok) ==
    IF ok THEN registered \ Range(platforms) ELSE registered

(***************************************************************************)
(* async_setup_entry, one action per step.                                 *)
(***************************************************************************)
Issue(call) == calls' = [calls EXCEPT ![call] = @ + 1]

\* `raise ConfigEntryNotReady(...) from err` in an except HUB_EXCEPTIONS clause.
RaiseNotReady(event) ==
    /\ pc' = "done"
    /\ outcome' = "not_ready"
    /\ raised' = TRUE
    /\ log' = log \o <<event, "not_ready">>

Proceed(event, next) ==
    /\ pc' = next
    /\ log' = Append(log, event)
    /\ UNCHANGED <<outcome, raised>>

\* lines 38-51: the host calls async_setup_entry; config = entry.data.
SetupStart ==
    /\ HostMaySetup
    /\ runs < MaxRuns
    /\ runs' = runs + 1
    /\ entry_state' = "setup_in_progress"
    /\ pc' = "query_firmware"
    /\ outcome' = "none"
    /\ config' = entry_data
    /\ hub' = NoValue
    /\ device_info' = NoValue
    /\ room_data' = NoValue
    /\ scene_data' = NoValue
    /\ shade_data' = NoValue
    /\ coordinator' = NoValue
    /\ log' = <<>>
    /\ calls' = [c \in HubCalls |-> 0]
    /\ raised' = FALSE
    /\ UNCHANGED <<entry_data, runtime_data, forwarded, unload_vars, mig_vars>>

\* lines 55-56 (and 58-61): hub = Hub(pv_request); await hub.query_firmware().
QueryFirmware ==
    /\ pc = "query_firmware"
    /\ Issue("query_firmware")
    /\ \/ /\ \E r \in Roles, v \in ApiVersions : hub' = Hub(r, v)
          /\ Proceed("query_firmware", "device_info")
       \/ /\ RaiseNotReady("query_firmware")
          /\ UNCHANGED hub
    /\ UNCHANGED <<config, device_info, room_data, scene_data, shade_data,
                   coordinator, runs, entry_vars, unload_vars, mig_vars>>

\* line 57 (and 58-61): device_info = await async_get_device_info(hub).
GetDeviceInfo ==
    /\ pc = "device_info"
    /\ \/ /\ device_info' = async_get_device_info(hub)
          /\ Proceed("device_info", "check_role")
       \/ /\ RaiseNotReady("device_info")
          /\ UNCHANGED device_info
    /\ UNCHANGED <<config, hub, room_data, scene_data, shade_data, coordinator,
                   calls, runs, entry_vars, unload_vars, mig_vars>>

\* lines 63-73: only the Primary hub can manage shades.
CheckRole ==
    /\ pc = "check_role"
    /\ IF RoleIsPrimary(hub)
       THEN Proceed("role_check", "get_rooms")
       ELSE /\ pc' = "done"
            /\ outcome' = "false"
            /\ log' = log \o <<"role_check", "return_false">>
            /\ UNCHANGED raised
    /\ UNCHANGED <<config, hub, device_info, room_data, scene_data, shade_data,
                   coordinator, calls, runs, entry_vars, unload_vars, mig_vars>>

GetRooms_Retry ==
    /\ pc = "get_rooms"
    /\ calls["get_rooms"] < 3
    /\ Issue("get_rooms")
    /\ \/ /\ room_data' = PowerviewData("rooms")
          /\ Proceed("get_rooms", "get_scenes")
       \/ /\ Proceed("get_rooms", "get_rooms")
          /\ UNCHANGED room_data
    /\ UNCHANGED <<config, hub, device_info, scene_data, shade_data, coordinator,
                   runs, entry_vars, unload_vars, mig_vars>>

\* lines 76-77 (and 84-87): room_data = await rooms.get_rooms().
GetRooms ==
    /\ pc = "get_rooms"
    /\ Issue("get_rooms")
    /\ \/ /\ room_data' = PowerviewData("rooms")
          /\ Proceed("get_rooms", "get_scenes")
       \/ /\ RaiseNotReady("get_rooms")
          /\ UNCHANGED room_data
    /\ UNCHANGED <<config, hub, device_info, scene_data, shade_data, coordinator,
                   runs, entry_vars, unload_vars, mig_vars>>

\* lines 79-80 (and 84-87): scene_data = await scenes.get_scenes().
GetScenes ==
    /\ pc = "get_scenes"
    /\ Issue("get_scenes")
    /\ \/ /\ scene_data' = PowerviewData("scenes")
          /\ Proceed("get_scenes", "get_shades")
       \/ /\ RaiseNotReady("get_scenes")
          /\ UNCHANGED scene_data
    /\ UNCHANGED <<config, hub, device_info, room_data, shade_data, coordinator,
                   runs, entry_vars, unload_vars, mig_vars>>

GetShades_Swallow ==
    /\ pc = "get_shades"
    /\ Issue("get_shades")
    /\ \/ /\ shade_data' = PowerviewData("shades")
          /\ Proceed("get_shades", "persist")
       \/ /\ shade_data' = PowerviewData("shades")
          /\ pc' = "persist"
          /\ raised' = TRUE
          /\ log' = Append(log, "get_shades")
          /\ UNCHANGED outcome
    /\ UNCHANGED <<config, hub, device_info, room_data, scene_data, coordinator,
                   runs, entry_vars, unload_vars, mig_vars>>

\* lines 82-83 (and 84-87): shade_data = await shades.get_shades().
GetShades ==
    /\ pc = "get_shades"
    /\ Issue("get_shades")
    /\ \/ /\ shade_data' = PowerviewData("shades")
          /\ Proceed("get_shades", "persist")
       \/ /\ RaiseNotReady("get_shades")
          /\ UNCHANGED shade_data
    /\ UNCHANGED <<config, hub, device_info, room_data, scene_data, coordinator,
                   runs, entry_vars, unload_vars, mig_vars>>

\* lines 89-95: the device-info check, then the API version is persisted when
\* `config` has none.  async_get_device_info always returns a record, which is
\* truthy, so the raise of line 90 is not taken.
PersistApiVersion ==
    /\ pc = "persist"
    /\ IF Falsy(device_info)
       THEN /\ pc' = "done"
            /\ outcome' = "not_ready"
            /\ log' = Append(log, "not_ready")
            /\ UNCHANGED <<raised, entry_data>>
       ELSE /\ entry_data' = PersistedData(config, entry_data, hub)
            /\ pc' = "coordinator"
            /\ log' = IF CONF_API_VERSION \notin DOMAIN config
                      THEN Append(log, "update_entry") ELSE log
            /\ UNCHANGED <<outcome, raised>>
    /\ UNCHANGED <<config, hub, device_info, room_data, scene_data, shade_data,
                   coordinator, calls, runs, entry_state, runtime_data, forwarded,
                   unload_vars, mig_vars>>

\* lines 97-100: the coordinator is created and seeded with the raw shade data.
CreateCoordinator ==
    /\ pc = "coordinator"
    /\ coordinator' = PowerviewShadeUpdateCoordinator(hub, shade_data)
    /\ Proceed("coordinator", "runtime_data")
    /\ UNCHANGED <<config, hub, device_info, room_data, scene_data, shade_data,
                   calls, runs, entry_vars, unload_vars, mig_vars>>

\* lines 102-109: entry.runtime_data = PowerviewEntryData(...).
AssignRuntimeData ==
    /\ pc = "runtime_data"
    /\ runtime_data' = PowerviewEntryData(runs, room_data, scene_data, shade_data,
                                          coordinator, device_info)
    /\ Proceed("runtime_data", "forward")
    /\ UNCHANGED <<config, hub, device_info, room_data, scene_data, shade_data,
                   coordinator, calls, runs, entry_state, entry_data, forwarded,
                   unload_vars, mig_vars>>

\* line 111: await hass.config_entries.async_forward_entry_setups(entry, PLATFORMS).
ForwardEntrySetups ==
    /\ pc = "forward"
    /\ forwarded' = HostForward(forwarded, PLATFORMS)
    /\ Proceed("forward", "return")
    /\ UNCHANGED <<config, hub, device_info, room_data, scene_data, shade_data,
                   coordinator, calls, runs, entry_state, entry_data, runtime_data,
                   unload_vars, mig_vars>>

\* line 113: return True.
ReturnTrue ==
    /\ pc = "return"
    /\ pc' = "done"
    /\ outcome' = "true"
    /\ log' = Append(log, "return_true")
    /\ UNCHANGED <<raised, config, hub, device_info, room_data, scene_data,
                   shade_data, coordinator, calls, runs, entry_vars, unload_vars,
                   mig_vars>>

SetupStep ==
    \/ QueryFirmware
    \/ GetDeviceInfo
    \/ CheckRole
    \/ GetRooms
    \/ GetScenes
    \/ GetShades
    \/ PersistApiVersion
    \/ CreateCoordinator
    \/ AssignRuntimeData
    \/ ForwardEntrySetups
    \/ ReturnTrue

\* The host records how the setup run ended: True loads the entry, False is a
\* setup error, ConfigEntryNotReady schedules a retry.
HostSetupDone ==
    /\ entry_state = "setup_in_progress"
    /\ pc = "done"
    /\ entry_state' = CASE outcome = "true" -> "loaded"
                        [] outcome = "false" -> "setup_error"
                        [] OTHER -> "setup_retry"
    /\ UNCHANGED <<entry_data, runtime_data, forwarded, setup_vars, unload_vars,
                   mig_vars>>

(***************************************************************************)
(* async_unload_entry.                                                     *)
(***************************************************************************)
UnloadArg_Short == SubSeq(PLATFORMS, 1, Len(PLATFORMS) - 1)

\* line 130: the platforms handed to async_unload_platforms.
UnloadArg == PLATFORMS

async_unload_entry_Clears ==
    /\ entry_state = "loaded"
    /\ entry_state' = "unloading"
    /\ unload_requested' = Range(UnloadArg)
    /\ \E ok \in BOOLEAN :
          /\ forwarded' = HostUnloadPlatforms(forwarded, UnloadArg, ok)
          /\ host_result' = ok
          /\ unload_result' = ok
    /\ runtime_data' = NoValue
    /\ UNCHANGED <<entry_data, setup_vars, mig_vars>>

\* lines 128-130: the host unloads a loaded entry;
\* return await hass.config_entries.async_unload_platforms(entry, PLATFORMS).
async_unload_entry ==
    /\ entry_state = "loaded"
    /\ entry_state' = "unloading"
    /\ unload_requested' = Range(UnloadArg)
    /\ \E ok \in BOOLEAN :
          /\ forwarded' = HostUnloadPlatforms(forwarded, UnloadArg, ok)
          /\ host_result' = ok
          /\ unload_result' = ok
    /\ UNCHANGED <<entry_data, runtime_data, setup_vars, mig_vars>>

\* The host after async_unload_entry returned: on True the entry is not loaded
\* any more and its runtime data is discarded; on False the unload failed.
HostUnloadDone ==
    /\ entry_state = "unloading"
    /\ IF unload_result
       THEN /\ entry_state' = "not_loaded"
            /\ runtime_data' = NoValue
       ELSE /\ entry_state' = "failed_unload"
            /\ UNCHANGED runtime_data
    /\ UNCHANGED <<entry_data, forwarded, setup_vars, unload_vars, mig_vars>>

(***************************************************************************)
(* The lifecycle specification.                                            *)
(***************************************************************************)
MigIdle ==
    /\ version = 1
    /\ minor_version = 2
    /\ unique_id = <<"a">>
    /\ registry = <<>>
    /\ mig_pc = "idle"
    /\ mig_result = "none"
    /\ mig_calls = 0
    /\ reg0 = <<>>
    /\ ver0 = <<1, 2>>
    /\ id_calls = 0
    /\ after_first = <<>>

SetupIdle ==
    /\ pc = "idle"
    /\ outcome = "none"
    /\ config = NoValue
    /\ hub = NoValue
    /\ device_info = NoValue
    /\ room_data = NoValue
    /\ scene_data = NoValue
    /\ shade_data = NoValue
    /\ coordinator = NoValue
    /\ log = <<>>
    /\ calls = [c \in HubCalls |-> 0]
    /\ raised = FALSE
    /\ runs = 0
    /\ entry_state = "not_loaded"
    /\ runtime_data = NoValue
    /\ forwarded = {}
    /\ unload_requested = {}
    /\ host_result = FALSE
    /\ unload_result = FALSE

\* A config entry as the config flow stores it: the host, and the API version
\* unless the entry predates it.
EntryDatas ==
    {[host |-> "h1"]} \cup {[host |-> "h1", api_version |-> v] : v \in ApiVersions}

Init ==
    /\ SetupIdle
    /\ entry_data \in EntryDatas
    /\ MigIdle

Next ==
    \/ SetupStart
    \/ SetupStep
    \/ HostSetupDone
    \/ async_unload_entry
    \/ HostUnloadDone

Spec == Init /\ [][Next]_vars

\* Every hub call of the vendor SDK ends within its timeout (line 53) and the
\* rest of async_setup_entry is straight-line code: a started run keeps stepping.
FairSpec == Spec /\ WF_vars(SetupStep)

(***************************************************************************)
(* Unique ids.  A unique id is an int or a str; a str is a sequence of     *)
(* characters.                                                             *)
(***************************************************************************)
IntId(n) == [kind |-> "int", n |-> n, text |-> <<>>]
StrId(t) == [kind |-> "str", n |-> 0, text |-> t]

Digits == <<"0", "1", "2", "3", "4", "5", "6", "7", "8", "9">>

RECURSIVE Decimal(_)
\* str(n) of an int.
Decimal(n) ==
    IF n < 0 THEN <<"-">> \o Decimal(-n)
    ELSE IF n < 10 THEN <<Digits[n + 1]>>
    ELSE Decimal(n \div 10) \o <<Digits[(n % 10) + 1]>>

\* What an f-string renders for {reg_entry.unique_id}.
Format(uid) == IF uid.kind = "int" THEN Decimal(uid.n) ELSE uid.text

\* str.startswith.
StartsWith(s, prefix) ==
    /\ Len(prefix) <= Len(s)
    /\ SubSeq(s, 1, Len(prefix)) = prefix

NeedsMigration_IntOnly(uid, entry_unique_id) == uid.kind = "int"

NeedsMigration_Always(uid, entry_unique_id) == TRUE

\* lines 158-161: the unique ids that get rewritten.
NeedsMigration(uid, entry_unique_id) ==
    \/ uid.kind = "int"
    \/ /\ uid.kind = "str"
       /\ ~StartsWith(uid.text, entry_unique_id)

NewUniqueId_NoSeparator(entry_unique_id, uid) == StrId(entry_unique_id \o Format(uid))

\* line 171: f"{entry.unique_id}_{reg_entry.unique_id}".
NewUniqueId(entry_unique_id, uid) == StrId(entry_unique_id \o <<"_">> \o Format(uid))

(***************************************************************************)
(* The entity registry.                                                    *)
(***************************************************************************)
EntityIds == 1..NumEntities
ConfigEntryIds == {"e1", "e2"}
\* The config entry being migrated.
EntryId == "e1"

IntIds == {6 * k : k \in 1..MaxIdIndex}
StrTexts ==
    {<<"6">>, <<"b">>, <<"a", "b">>, <<"a", "_", "6">>, <<"a", "_", "b">>,
     <<"a", "b", "_", "6">>}
UniqueIds == {IntId(n) : n \in IntIds} \cup {StrId(t) : t \in StrTexts}
EntryUniqueIds == {<<"a">>, <<"a", "b">>, <<"6">>}
Registries == [EntityIds -> [config_entry_id : ConfigEntryIds, unique_id : UniqueIds]]
Versions == {1, 2}
MinorVersions == {1, 2, 3}

RECURSIVE EntriesFrom(_, _, _)
EntriesFrom(reg, entry_id, i) ==
    IF i > NumEntities THEN <<>>
    ELSE (IF reg[i].config_entry_id = entry_id
          THEN <<[entity_id |-> i, unique_id |-> reg[i].unique_id]>>
          ELSE <<>>) \o EntriesFrom(reg, entry_id, i + 1)

\* er.async_entries_for_config_entry: the entries of one config entry, as read
\* before the loop.
async_entries_for_config_entry(reg, entry_id) == EntriesFrom(reg, entry_id, 1)

\* entity_registry.async_update_entity(entity_id, new_unique_id=...).
async_update_entity(reg, entity_id, new_unique_id) ==
    [reg EXCEPT ![entity_id].unique_id = new_unique_id]

RECURSIVE MigrateLoop(_, _, _)
\* lines 157-172: the loop over registry_entries.
MigrateLoop(reg, registry_entries, entry_unique_id) ==
    IF registry_entries = <<>> THEN reg
    ELSE LET reg_entry == Head(registry_entries)
             updated == IF NeedsMigration(reg_entry.unique_id, entry_unique_id)
                        THEN async_update_entity(
                                 reg, reg_entry.entity_id,
                                 NewUniqueId(entry_unique_id, reg_entry.unique_id))
                        ELSE reg
         IN  MigrateLoop(updated, Tail(registry_entries), entry_unique_id)

\* lines 149-172: _migrate_unique_ids.
migrate_unique_ids(reg, entry_id, entry_unique_id) ==
    MigrateLoop(reg, async_entries_for_config_entry(reg, entry_id), entry_unique_id)

(***************************************************************************)
(* async_migrate_entry, one action per step.                               *)
(***************************************************************************)
\* lines 133-140: the host calls async_migrate_entry; the version tests.
MigrateStart ==
    /\ mig_pc \in {"idle", "done"}
    /\ mig_calls < MaxMigCalls
    /\ mig_calls' = mig_calls + 1
    /\ reg0' = registry
    /\ ver0' = <<version, minor_version>>
    /\ mig_result' = "none"
    /\ mig_pc' = IF version = 1 /\ minor_version = 1 THEN "migrate_ids" ELSE "return"
    /\ UNCHANGED <<version, minor_version, unique_id, registry, id_calls, after_first,
                   entry_vars, setup_vars, unload_vars>>

\* line 141: await _migrate_unique_ids(hass, entry).
MigrateIds ==
    /\ mig_pc = "migrate_ids"
    /\ registry' = migrate_unique_ids(registry, EntryId, unique_id)
    /\ mig_pc' = "update_minor"
    /\ UNCHANGED <<version, minor_version, unique_id, mig_result, mig_calls, reg0,
                   ver0, id_calls, after_first, entry_vars, setup_vars, unload_vars>>

\* line 142: hass.config_entries.async_update_entry(entry, minor_version=2).
UpdateMinorVersion ==
    /\ mig_pc = "update_minor"
    /\ minor_version' = 2
    /\ mig_pc' = "return"
    /\ UNCHANGED <<version, unique_id, registry, mig_result, mig_calls, reg0, ver0,
                   id_calls, after_first, entry_vars, setup_vars, unload_vars>>

\* line 146: return True.
MigrateReturn ==
    /\ mig_pc = "return"
    /\ mig_result' = "true"
    /\ mig_pc' = "done"
    /\ UNCHANGED <<version, minor_version, unique_id, registry, mig_calls, reg0, ver0,
                   id_calls, after_first, entry_vars, setup_vars, unload_vars>>

LifecycleIdle ==
    /\ SetupIdle
    /\ entry_data = [host |-> "h1"]

MigInit ==
    /\ LifecycleIdle
    /\ version \in Versions
    /\ minor_version \in MinorVersions
    /\ unique_id \in EntryUniqueIds
    /\ registry \in Registries
    /\ mig_pc = "idle"
    /\ mig_result = "none"
    /\ mig_calls = 0
    /\ reg0 = registry
    /\ ver0 = <<version, minor_version>>
    /\ id_calls = 0
    /\ after_first = registry

MigNext ==
    \/ MigrateStart
    \/ MigrateIds
    \/ UpdateMinorVersion
    \/ MigrateReturn

MigSpec == MigInit /\ [][MigNext]_vars

(***************************************************************************)
(* _migrate_unique_ids on its own, applied to drawn registries.            *)
(***************************************************************************)
CallMigrateUniqueIds ==
    /\ id_calls < MaxIdCalls
    /\ id_calls' = id_calls + 1
    /\ registry' = migrate_unique_ids(registry, EntryId, unique_id)
    /\ after_first' = IF id_calls = 0 THEN registry' ELSE after_first
    /\ UNCHANGED <<version, minor_version, unique_id, mig_pc, mig_result, mig_calls,
                   reg0, ver0, entry_vars, setup_vars, unload_vars>>

IdInit ==
    /\ LifecycleIdle
    /\ version = 1
    /\ minor_version = 1
    /\ unique_id \in EntryUniqueIds
    /\ registry \in Registries
    /\ mig_pc = "idle"
    /\ mig_result = "none"
    /\ mig_calls = 0
    /\ reg0 = registry
    /\ ver0 = <<1, 1>>
    /\ id_calls = 0
    /\ after_first = registry

IdNext == CallMigrateUniqueIds

IdSpec == IdInit /\ [][IdNext]_vars

(***************************************************************************)
(* Claims about the lifecycle (Spec, FairSpec).                            *)
(***************************************************************************)
Logged(event) == event \in Range(log)

AfterRoleCheck ==
    {"get_rooms", "get_scenes", "get_shades", "update_entry", "coordinator",
     "runtime_data", "forward", "return_true"}

NothingSetUp ==
    /\ entry_data = config
    /\ coordinator = NoValue
    /\ runtime_data = NoValue
    /\ forwarded = {}

\* C1: a hub whose role is not "Primary" makes setup return False, and in that
\* run there is no rooms/scenes/shades fetch, no update of the entry's data, no
\* coordinator, no runtime_data and no forwarding; whenever platforms are
\* forwarded or runtime_data is set, the hub of that run was "Primary".
C1_PrimaryBeforeShades ==
    /\ (hub # NoValue /\ hub.role # "Primary" /\ Logged("role_check"))
          => /\ pc = "done"
             /\ outcome = "false"
             /\ Range(log) \cap AfterRoleCheck = {}
             /\ \A c \in {"get_rooms", "get_scenes", "get_shades"} : calls[c] = 0
             /\ NothingSetUp
    /\ (forwarded # {} \/ runtime_data # NoValue)
          => /\ hub # NoValue
             /\ hub.role = "Primary"

C1_Witness ==
    /\ pc = "done"
    /\ outcome = "false"
    /\ hub # NoValue
    /\ hub.role = "Secondary"
    /\ Logged("role_check")

\* C2: when a hub call of async_setup_entry raises one of HUB_EXCEPTIONS, the
\* run ends by raising ConfigEntryNotReady, with the entry's data unchanged,
\* runtime_data not assigned, no coordinator created and no platform forwarded.
C2_HubErrorNotReady ==
    raised =>
        /\ pc = "done"
        /\ outcome = "not_ready"
        /\ log[Len(log)] = "not_ready"
        /\ Range(log) \cap {"update_entry", "coordinator", "runtime_data", "forward",
                            "return_true", "return_false"} = {}
        /\ NothingSetUp

C2_Witness ==
    /\ raised
    /\ calls["get_shades"] = 1
    /\ outcome = "not_ready"

SetupOrder ==
    <<"query_firmware", "role_check", "get_rooms", "get_scenes", "get_shades",
      "coordinator", "runtime_data", "forward", "return_true">>

InSetupOrder(event) == event \in Range(SetupOrder)

IsPrefix(s, t) == Len(s) <= Len(t) /\ SubSeq(t, 1, Len(s)) = s

RuntimeDataComplete ==
    /\ runtime_data # NoValue
    /\ room_data # NoValue /\ runtime_data.room_data = room_data.processed
    /\ scene_data # NoValue /\ runtime_data.scene_data = scene_data.processed
    /\ shade_data # NoValue /\ runtime_data.shade_data = shade_data.processed
    /\ coordinator # NoValue
    /\ coordinator.data = shade_data.raw
    /\ runtime_data.coordinator = coordinator
    /\ device_info # NoValue /\ runtime_data.device_info = device_info

\* C3: a run of async_setup_entry that returns True went, each once and in
\* this order, through firmware query, role check, rooms, scenes and shades
\* fetch, coordinator creation (seeded with the raw shade data), assignment of
\* runtime_data, forwarding, return True; platforms are forwarded only when
\* runtime_data holds the snapshots, the coordinator and the device info.
C3_SetupOrder ==
    /\ IsPrefix(SelectSeq(log, InSetupOrder), SetupOrder)
    /\ outcome = "true" => SelectSeq(log, InSetupOrder) = SetupOrder
    /\ forwarded # {} => RuntimeDataComplete
    /\ (Logged("forward") /\ entry_state \in {"setup_in_progress", "loaded"})
          => RuntimeDataComplete
    /\ Logged("return_true") => Logged("forward")
    /\ (outcome = "true" /\ entry_state = "setup_in_progress")
          => forwarded = Range(PLATFORMS)

C3_Witness ==
    /\ pc = "done"
    /\ outcome = "true"
    /\ forwarded = Range(PLATFORMS)
    /\ RuntimeDataComplete

UnloadSucceeded == entry_state = "unloading" /\ unload_result

\* C4: the Entry Data aggregate is created once, by setup; it stays the same
\* object with the same contents until a successful unload, after which the
\* entry no longer holds it.
C4_HeldUntilUnload ==
    [][/\ (runtime_data # NoValue /\ ~UnloadSucceeded) => runtime_data' = runtime_data
       /\ (runtime_data = NoValue /\ runtime_data' # NoValue)
             => /\ pc = "runtime_data"
                /\ runtime_data'.obj = runs
       /\ (UnloadSucceeded /\ entry_state' # entry_state)
             => /\ entry_state' = "not_loaded"
                /\ runtime_data' = NoValue
       /\ entry_state' = "loaded" => runtime_data' # NoValue]_vars

C4_Witness ==
    /\ entry_state = "not_loaded"
    /\ outcome = "true"
    /\ unload_result
    /\ runtime_data = NoValue

\* C5: async_unload_entry asks the host to unload exactly the platforms that
\* setup forwarded, returns the host's result unchanged, leaves no forwarded
\* platform registered when the host reports success, and changes nothing
\* else on the entry.
C5_UnloadTearsDown ==
    [][(entry_state = "loaded" /\ entry_state' # "loaded")
          => /\ unload_requested' = Range(PLATFORMS)
             /\ unload_requested' = forwarded
             /\ unload_result' = host_result'
             /\ host_result' => forwarded' = {}
             /\ entry_data' = entry_data
             /\ runtime_data' = runtime_data
             /\ <<version', minor_version', unique_id'>>
                   = <<version, minor_version, unique_id>>]_vars

C5_Witness ==
    /\ entry_state = "unloading"
    /\ unload_result
    /\ host_result
    /\ forwarded = {}
    /\ unload_requested = Range(PLATFORMS)

Running == pc \notin {"idle", "done"}

Started ==
    /\ outcome = "true"
    /\ Logged("forward")
    /\ Logged("runtime_data")
    /\ entry_state = "setup_in_progress"
          => forwarded = Range(PLATFORMS) /\ runtime_data # NoValue

FailedNotReady ==
    /\ outcome = "not_ready"
    /\ forwarded = {}
    /\ runtime_data = NoValue

FailedFalse ==
    /\ outcome = "false"
    /\ forwarded = {}
    /\ runtime_data = NoValue

\* C7 as stated: a run ends either started (True, platforms forwarded,
\* runtime_data set) or failed by raising ConfigEntryNotReady; nothing else.
C7_TwoOutcomes == pc = "done" => (Started \/ FailedNotReady)

\* C7, amended: every run of async_setup_entry terminates, issues each hub
\* call at most once, and ends in exactly one of three outcomes: True with
\* platforms forwarded and runtime_data set, ConfigEntryNotReady with nothing
\* forwarded, or False (the hub is not Primary) with nothing forwarded.
C7_SinglePass ==
    /\ [](\A c \in HubCalls : calls[c] <= 1)
    /\ [](pc = "done" => (Started \/ FailedNotReady \/ FailedFalse))
    /\ [](Running => outcome = "none")
    /\ (Running ~> pc = "done")

C7_Witness ==
    /\ pc = "done"
    /\ FailedFalse
    /\ calls["query_firmware"] = 1

\* C8: the entry's persisted data changes only in the step after the three
\* fetches and only when it has no API-version key; it then becomes the old
\* data plus API-version = the hub's api_version, every other key unchanged;
\* data that has the key is never updated, and a run that returns False or
\* raises ConfigEntryNotReady leaves the data as it was.
C8_ApiVersionPersisted ==
    [][/\ entry_data' # entry_data
             => /\ pc = "persist"
                /\ CONF_API_VERSION \notin DOMAIN entry_data
       /\ (pc = "persist" /\ pc' # pc /\ CONF_API_VERSION \notin DOMAIN entry_data)
             => /\ pc' = "coordinator"
                /\ DOMAIN entry_data' = DOMAIN entry_data \cup {CONF_API_VERSION}
                /\ entry_data'[CONF_API_VERSION] = hub.api_version
                /\ \A k \in DOMAIN entry_data : entry_data'[k] = entry_data[k]
       /\ (pc' = "done" /\ outcome' \in {"false", "not_ready"})
             => entry_data' = config']_vars

C8_Witness ==
    /\ pc = "coordinator"
    /\ CONF_API_VERSION \notin DOMAIN config
    /\ CONF_API_VERSION \in DOMAIN entry_data
    /\ entry_data[CONF_API_VERSION] = hub.api_version
    /\ entry_data[CONF_HOST] = config[CONF_HOST]

(***************************************************************************)
(* Claims about the migration (MigSpec, IdSpec).                           *)
(***************************************************************************)
OfEntry(reg) == {e \in EntityIds : reg[e].config_entry_id = EntryId}

Prefixed(uid) == uid.kind = "str" /\ StartsWith(uid.text, unique_id)

AllPrefixed(reg) == \A e \in OfEntry(reg) : Prefixed(reg[e].unique_id)

\* C6: async_migrate_entry returns True; from 1.1 the entry ends at minor
\* version 2 with every registry entry of the config entry carrying a string
\* unique id that starts with the entry's unique_id, the minor version being
\* bumped only after the ids were rewritten; from any other version neither
\* the entry nor the registry changes.
C6_MigrateEntry ==
    /\ mig_pc = "done" =>
          /\ mig_result = "true"
          /\ IF ver0 = <<1, 1>>
             THEN /\ <<version, minor_version>> = <<1, 2>>
                  /\ AllPrefixed(registry)
             ELSE /\ <<version, minor_version>> = ver0
                  /\ registry = reg0
    /\ (mig_calls > 0 /\ <<version, minor_version>> # ver0) => AllPrefixed(registry)
    /\ (mig_calls > 0 /\ ver0 # <<1, 1>>) => registry = reg0
    /\ \A e \in EntityIds \ OfEntry(reg0) : registry[e] = reg0[e]

C6_Witness ==
    /\ mig_pc = "done"
    /\ ver0 = <<1, 1>>
    /\ minor_version = 2
    /\ registry # reg0

Once(uid) == StrId(unique_id \o <<"_">> \o Format(uid))

\* C9: _migrate_unique_ids is idempotent: a second run leaves the registry as
\* the first left it; a unique id that is already a string starting with the
\* entry's unique_id is never rewritten, and none is prefixed twice.
C9_Idempotent ==
    /\ id_calls >= 2 => registry = after_first
    /\ \A e \in EntityIds :
          /\ Prefixed(reg0[e].unique_id) => registry[e] = reg0[e]
          /\ registry[e].unique_id \in {reg0[e].unique_id, Once(reg0[e].unique_id)}

C9_Witness ==
    /\ id_calls = 2
    /\ registry # reg0
    /\ \E e \in OfEntry(reg0) : Prefixed(reg0[e].unique_id)

Distinct(reg) ==
    \A e1, e2 \in OfEntry(reg) : e1 # e2 => reg[e1].unique_id # reg[e2].unique_id

\* No id is rewritten onto another: two rewritten ids differ as text (not the
\* int 6 beside the str "6"), and none already is <unique_id>_<text> of another.
NoClash(reg) ==
    \A e1, e2 \in OfEntry(reg) :
        (e1 # e2 /\ ~Prefixed(reg[e1].unique_id)) =>
            /\ ~Prefixed(reg[e2].unique_id)
                  => Format(reg[e1].unique_id) # Format(reg[e2].unique_id)
            /\ reg[e2].unique_id # Once(reg[e1].unique_id)

====
